---- MODULE Spec2Model ----
(***************************************************************************)
(* Sales-Analysis-Dashboard: the five aggregation routines of              *)
(* Sales_analysis_app.py (process_data of TrendsOverTime,                  *)
(* LocationDistribution, PairProductAnalysis, BestSellingProductAnalysis,  *)
(* ProductPerformanceAnalysis), the spreadsheet ingestion, the layout      *)
(* built at start-up and the two Dash callbacks.                           *)
(*                                                                         *)
(* A DataFrame is a record [columns, rows, date_dtype]: the ordered column *)
(* labels, the rows (each a function from column label to cell) and the    *)
(* dtype of the Date column (what decides whether .dt can be used).        *)
(* A Date cell is a record [kind, year, month, day]: kind "ts" is a        *)
(* Timestamp, kind "str" a text cell (year = 0: text that is no date),     *)
(* kind "NaT" the missing marker.  Customer_ID, Purchase Category and      *)
(* Location cells are integers (opaque, comparable labels).                *)
(***************************************************************************)
EXTENDS Integers, Sequences, FiniteSets, TLC

VARIABLES
    sales_data,   \* the module-level table loaded at start-up (line 112)
    ingested,     \* history: the table ingest returned
    load_failed,  \* history: pd.read_excel raised during ingestion
    pc,           \* "start", "loaded", "serving", "crashed"
    request,      \* the last callback invocation (function and inputs)
    response,     \* what that invocation returned (or that it raised)
    input,        \* the table a test hands to process_data, as built
    data,         \* that same table object (the argument, after the call)
    called,       \* the routine called on it, "none" before the call
    result        \* what the call returned (or that it raised)

vars == <<sales_data, ingested, load_failed, pc, request, response,
          input, data, called, result>>

appVars == <<sales_data, ingested, load_failed, pc, request, response>>
routineVars == <<input, data, called, result>>

(***************************************************************************)
(* Bounds of the model.                                                    *)
(***************************************************************************)
MaxRows == 3          \* rows of a table handed to a routine
MaxSheetRows == 2     \* rows of the spreadsheet read at start-up
WideCategories == 11  \* distinct categories of the widest test table

(* Program constants. *)
TopN == 10            \* .head(10)
NaN == 0              \* a missing Customer_ID cell
None == 0 - 1         \* Python None as a callback input

CustomerIds == {1, 2}
Categories == {1, 2}
Locations == {1, 2}

Timestamp(y, m, d) == [kind |-> "ts", year |-> y, month |-> m, day |-> d]
Text(y, m, d) == [kind |-> "str", year |-> y, month |-> m, day |-> d]
NaT == [kind |-> "NaT", year |-> 0, month |-> 0, day |-> 0]

\* Date cells of the tables handed to the routines: two timestamps in
\* different months, a text that spells a date, a text that does not.
DateCells ==
    {Timestamp(2023, 1, 15), Timestamp(2023, 2, 3), Text(2023, 1, 5), Text(0, 0, 0)}

ColumnOrder == <<"Date", "Customer_ID", "Purchase Category", "Location">>
AllColumns == {ColumnOrder[i] : i \in DOMAIN ColumnOrder}

Routines ==
    {"TrendsOverTime", "LocationDistribution", "PairProductAnalysis",
     "BestSellingProductAnalysis", "ProductPerformanceAnalysis"}

(***************************************************************************)
(* Sequence and set helpers.                                               *)
(***************************************************************************)
Range(s) == {s[i] : i \in DOMAIN s}

\* The integers of S in ascending order (groupby sorts its keys): the k-th
\* is the one with k - 1 smaller ones.
SortedSeq(S) ==
    [k \in 1..Cardinality(S) |->
        CHOOSE x \in S : Cardinality({y \in S : y < x}) = k - 1]

LexLess(a, b) == a[1] < b[1] \/ (a[1] = b[1] /\ a[2] <= b[2])

\* The pairs of integers of S in lexicographic order (a two-key groupby).
SortedPairs(S) ==
    [k \in 1..Cardinality(S) |->
        CHOOSE x \in S : Cardinality({y \in S : y # x /\ LexLess(y, x)}) = k - 1]

\* How many rows of the sequence a boolean mask (one entry per row) marks.
CountTrue(mask) == Cardinality({i \in DOMAIN mask : mask[i]})

DataFrame(cols, rows, dtype) == [columns |-> cols, rows |-> rows, date_dtype |-> dtype]

HasColumn(df, c) == c \in Range(df.columns)

(***************************************************************************)
(* pandas operations the routines use.                                     *)
(***************************************************************************)
\* pd.to_datetime(cell, errors='coerce'): a Timestamp stays, a text that
\* spells a date is parsed, anything else becomes NaT.
to_datetime(v) ==
    IF v.kind = "ts" THEN v
    ELSE IF v.kind = "str" /\ v.year # 0 THEN Timestamp(v.year, v.month, v.day)
    ELSE NaT

\* .dt.to_period("M") of a Timestamp: the ordinal of its month (months since
\* January 1970), the integer pandas orders periods by.
to_period_M(ts) == (ts.year - 1970) * 12 + (ts.month - 1)

\* .dt.to_timestamp() of a monthly period: the first day of that month.
to_timestamp(p) == Timestamp(1970 + (p \div 12), (p % 12) + 1, 1)

\* data['Date'] = pd.to_datetime(data['Date'], errors='coerce'): the Date
\* column of the SAME table object is replaced by the converted column.
AssignDate(df) ==
    DataFrame(df.columns,
              [i \in DOMAIN df.rows |->
                  [df.rows[i] EXCEPT !["Date"] = to_datetime(@)]],
              "datetime64")

\* Series.count(): the cells of Customer_ID that are not missing.
NotNull(r) == r["Customer_ID"] # NaN

\* sort_values(by=key, ascending=False): a row's place is one more than the
\* number of rows that go before it, those of a larger key and, here, those
\* of an equal key that stood earlier.  pandas leaves the order of rows of
\* equal key open, and no property below reads it.
sort_values_desc(rows, key) ==
    LET n == Len(rows)
        Before(j, i) ==
            \/ rows[j][key] > rows[i][key]
            \/ (rows[j][key] = rows[i][key] /\ j < i)
        Place(i) == Cardinality({j \in 1..n : Before(j, i)}) + 1
    IN [p \in 1..n |-> rows[CHOOSE i \in 1..n : Place(i) = p]]

\* .head(n)
head(rows, n) == SubSeq(rows, 1, IF Len(rows) < n THEN Len(rows) ELSE n)

\* What process_data hands back: the table it returns, whether it raised
\* instead, and the argument table as the call leaves it.
Returned(df, arg) == [raised |-> FALSE, table |-> df, data |-> arg]
Raised(arg) == [raised |-> TRUE, table |-> DataFrame(<<>>, <<>>, "none"), data |-> arg]

(***************************************************************************)
(* TrendsOverTime.process_data                                             *)
(***************************************************************************)
\* Lines 53-57: the conversion, the count per month, the renamed columns.
TrendsGrouped(df) ==
    LET d == AssignDate(df)
        dated == SelectSeq(d.rows, LAMBDA r : r["Date"].kind = "ts")
        keys == SortedSeq({to_period_M(r["Date"]) : r \in Range(dated)})
        InGroup(k, r) == to_period_M(r["Date"]) = k /\ NotNull(r)
        grouped ==
            [i \in DOMAIN keys |->
                [Date |-> to_timestamp(keys[i]),
                 TotalTransactions |->
                    CountTrue([n \in DOMAIN dated |-> InGroup(keys[i], dated[n])])]]
    IN Returned(DataFrame(<<"Date", "TotalTransactions">>, grouped, "datetime64"), d)

\* The routine with a guard that looks for Date only: the count over a
\* Customer_ID column that is not there raises KeyError.
TrendsOverTimeDateOnlyGuard(df) ==
    IF ~HasColumn(df, "Date")
    THEN Returned(DataFrame(<<"Date", "TotalTransactions">>, <<>>, "object"), df)
    ELSE IF ~HasColumn(df, "Customer_ID") THEN Raised(AssignDate(df))
    ELSE TrendsGrouped(df)

TrendsOverTime(df) ==
    IF ~HasColumn(df, "Date") \/ ~HasColumn(df, "Customer_ID")
    THEN Returned(DataFrame(<<"Date", "TotalTransactions">>, <<>>, "object"), df)
    ELSE TrendsGrouped(df)

(***************************************************************************)
(* LocationDistribution.process_data                                       *)
(***************************************************************************)
LocationDistribution(df) ==
    IF ~HasColumn(df, "Location") \/ ~HasColumn(df, "Customer_ID")
    THEN Returned(DataFrame(<<"Location", "CustomerCount">>, <<>>, "none"), df)
    ELSE
        LET keys == SortedSeq({r["Location"] : r \in Range(df.rows)})
            InGroup(k, r) == r["Location"] = k /\ NotNull(r)
            counted ==
                [i \in DOMAIN keys |->
                    [Location |-> keys[i],
                     CustomerCount |->
                        CountTrue([n \in DOMAIN df.rows |-> InGroup(keys[i], df.rows[n])])]]
        IN Returned(DataFrame(<<"Location", "CustomerCount">>,
                              sort_values_desc(counted, "CustomerCount"), "none"), df)

(***************************************************************************)
(* PairProductAnalysis.process_data                                        *)
(***************************************************************************)
\* The pairs of positions <<i, j>>, i < j, of a list of n items in the order
\* itertools.combinations yields them: (1,2), (1,3), ..., (2,3), ...  The
\* pairs that start before position i number (i-1)*n - (i-1)*i/2.
PositionPairs(n) ==
    LET Index(q) == (q[1] - 1) * n - (((q[1] - 1) * q[1]) \div 2) + (q[2] - q[1])
    IN [k \in 1..((n * (n - 1)) \div 2) |->
          CHOOSE q \in (1..n) \X (1..n) : q[1] < q[2] /\ Index(q) = k]

\* combinations that leaves out the pairs of two equal labels.
combinations_distinct(items) ==
    SelectSeq([k \in DOMAIN PositionPairs(Len(items)) |->
                  <<items[PositionPairs(Len(items))[k][1]],
                    items[PositionPairs(Len(items))[k][2]]>>],
              LAMBDA p : p[1] # p[2])

\* itertools.combinations(items, 2): every pair of positions i < j, in
\* position order, as the tuple (items[i], items[j]).
combinations(items) ==
    LET at == PositionPairs(Len(items))
    IN [k \in DOMAIN at |-> <<items[at[k][1]], items[at[k][2]]>>]

\* groupby('Customer_ID')['Purchase Category'].apply(list): per customer
\* (missing ids dropped, ids in ascending order) the categories of that
\* customer's rows, in row order.
PurchaseLists(df) ==
    LET ids == SortedSeq({r["Customer_ID"] : r \in Range(df.rows)} \ {NaN})
        Of(c) == SelectSeq(df.rows, LAMBDA r : r["Customer_ID"] = c)
    IN [k \in DOMAIN ids |->
          [i \in DOMAIN Of(ids[k]) |-> Of(ids[k])[i]["Purchase Category"]]]

RECURSIVE ExtendAll(_)
\* pairs.extend(combinations(items, 2)) for each customer's list in turn.
ExtendAll(lists) ==
    IF lists = <<>> THEN <<>>
    ELSE combinations(Head(lists)) \o ExtendAll(Tail(lists))

\* The keys of Counter(pairs), in the order they were first counted: the
\* entries that no earlier entry equals.
FirstOccurrences(s) ==
    LET firsts == SortedSeq({i \in DOMAIN s : \A j \in 1..(i - 1) : s[j] # s[i]})
    IN [k \in DOMAIN firsts |-> s[firsts[k]]]

\* Counter(pairs).items(): each distinct tuple with its number of occurrences.
Counter(pairs) ==
    LET keys == FirstOccurrences(pairs)
    IN [k \in DOMAIN keys |->
          [Pair |-> keys[k],
           Frequency |-> Cardinality({i \in DOMAIN pairs : pairs[i] = keys[k]})]]

PairProductAnalysis(df) ==
    IF ~HasColumn(df, "Customer_ID") \/ ~HasColumn(df, "Purchase Category")
    THEN Returned(DataFrame(<<"Product 1", "Product 2", "Frequency">>, <<>>, "none"), df)
    ELSE
        LET pair_counts == Counter(ExtendAll(PurchaseLists(df)))
            split ==
                [k \in DOMAIN pair_counts |->
                    [Frequency |-> pair_counts[k].Frequency]
                    @@ ("Product 1" :> pair_counts[k].Pair[1])
                    @@ ("Product 2" :> pair_counts[k].Pair[2])]
        IN \* a, b = zip(*empty) raises ValueError: nothing to unpack
           IF pair_counts = <<>> THEN Raised(df)
           ELSE Returned(DataFrame(<<"Frequency", "Product 1", "Product 2">>,
                                   sort_values_desc(split, "Frequency"), "none"), df)

(***************************************************************************)
(* BestSellingProductAnalysis.process_data                                 *)
(***************************************************************************)
BestSellingProductAnalysis(df) ==
    IF ~HasColumn(df, "Purchase Category") \/ ~HasColumn(df, "Customer_ID")
    THEN Returned(DataFrame(<<"Purchase Category", "Frequency">>, <<>>, "none"), df)
    ELSE
        LET keys == SortedSeq({r["Purchase Category"] : r \in Range(df.rows)})
            InGroup(k, r) == r["Purchase Category"] = k /\ NotNull(r)
            top_categories ==
                [i \in DOMAIN keys |->
                    [Frequency |->
                        CountTrue([n \in DOMAIN df.rows |-> InGroup(keys[i], df.rows[n])])]
                    @@ ("Purchase Category" :> keys[i])]
        IN Returned(DataFrame(<<"Purchase Category", "Frequency">>,
                              head(sort_values_desc(top_categories, "Frequency"), TopN),
                              "none"), df)

(***************************************************************************)
(* ProductPerformanceAnalysis.process_data                                 *)
(***************************************************************************)
ProductPerformanceAnalysis(df) ==
    IF ~HasColumn(df, "Date") \/ ~HasColumn(df, "Purchase Category")
       \/ ~HasColumn(df, "Customer_ID")
    THEN Returned(DataFrame(<<"Month", "Product Category", "Sales">>, <<>>, "none"), df)
    ELSE
        LET d == AssignDate(df)
            dated == SelectSeq(d.rows, LAMBDA r : r["Date"].kind = "ts")
            Key(r) == <<to_period_M(r["Date"]), r["Purchase Category"]>>
            keys == SortedPairs({Key(r) : r \in Range(dated)})
            InGroup(k, r) == Key(r) = k /\ NotNull(r)
            trends ==
                [i \in DOMAIN keys |->
                    [Month |-> to_timestamp(keys[i][1]),
                     Sales |-> CountTrue([n \in DOMAIN dated |-> InGroup(keys[i], dated[n])])]
                    @@ ("Product Category" :> keys[i][2])]
        IN Returned(DataFrame(<<"Month", "Product Category", "Sales">>, trends, "none"), d)

\* The dispatch on the routine's class.
process_data(routine, df) ==
    CASE routine = "TrendsOverTime" -> TrendsOverTime(df)
      [] routine = "LocationDistribution" -> LocationDistribution(df)
      [] routine = "PairProductAnalysis" -> PairProductAnalysis(df)
      [] routine = "BestSellingProductAnalysis" -> BestSellingProductAnalysis(df)
      [] routine = "ProductPerformanceAnalysis" -> ProductPerformanceAnalysis(df)

(***************************************************************************)
(* The tables the routines are called on.                                  *)
(***************************************************************************)
ColumnDomain(c) ==
    CASE c = "Date" -> DateCells
      [] c = "Customer_ID" -> CustomerIds \cup {NaN}
      [] c = "Purchase Category" -> Categories
      [] c = "Location" -> Locations

RECURSIVE RowsOver(_)
\* Every row over the (non-empty) set of columns cs.
RowsOver(cs) ==
    LET c == CHOOSE x \in cs : TRUE
    IN IF cs = {c} THEN {(c :> v) : v \in ColumnDomain(c)}
       ELSE {(c :> v) @@ r : v \in ColumnDomain(c), r \in RowsOver(cs \ {c})}

ColumnsOf(cs) == SelectSeq(ColumnOrder, LAMBDA c : c \in cs)

\* The dtype pandas gives the Date column of a table built from these rows.
DtypeOf(cs, rows) ==
    IF "Date" \notin cs THEN "none"
    ELSE IF \A i \in DOMAIN rows : rows[i]["Date"].kind # "str" THEN "datetime64"
    ELSE "object"

\* Tables of up to n rows over the columns cs.
TablesOver(cs, n) ==
    IF cs = {} THEN {DataFrame(<<>>, <<>>, "none")}
    ELSE {DataFrame(ColumnsOf(cs), rows, DtypeOf(cs, rows)) :
            rows \in UNION {[1..k -> RowsOver(cs)] : k \in 0..n}}
         \cup {DataFrame(ColumnsOf(cs), <<>>, IF "Date" \in cs THEN "object" ELSE "none")}

\* The more cell values a row can take, the fewer rows the model gives the
\* table: MaxRows rows up to a weight of two columns, one row fewer for each
\* column beyond, the Date column (which has the most values) counting twice.
RowLimit(cs) ==
    LET weight == Cardinality(cs) + (IF "Date" \in cs THEN 1 ELSE 0)
        n == IF weight <= 2 THEN MaxRows ELSE MaxRows + 2 - weight
    IN IF n < 0 THEN 0 ELSE n

\* A table of n records, one per category 1..n, all of one customer.
WideTable(n) ==
    DataFrame(<<"Customer_ID", "Purchase Category">>,
              [i \in 1..n |-> ("Customer_ID" :> 1) @@ ("Purchase Category" :> i)],
              "none")

InputTables ==
    UNION {TablesOver(cs, RowLimit(cs)) : cs \in SUBSET AllColumns}
    \cup {WideTable(n) : n \in (MaxRows + 1)..WideCategories}

(***************************************************************************)
(* The routines, each called once on a table.                              *)
(***************************************************************************)
NoCall == [raised |-> FALSE, table |-> DataFrame(<<>>, <<>>, "none")]

AppIdle ==
    /\ sales_data = DataFrame(<<>>, <<>>, "none")
    /\ ingested = sales_data
    /\ load_failed = FALSE
    /\ pc = "start"
    /\ request = [fn |-> "none", year |-> None, month |-> None, chart |-> "none"]
    /\ response = [raised |-> FALSE, kind |-> "none", options |-> <<>>, points |-> 0]

InitRoutines ==
    /\ AppIdle
    /\ input \in InputTables
    /\ data = input
    /\ called = "none"
    /\ result = NoCall

\* result = routine().process_data(data)
Call(routine) ==
    /\ called = "none"
    /\ LET out == process_data(routine, data)
       IN /\ data' = out.data
          /\ result' = [raised |-> out.raised, table |-> out.table]
    /\ called' = routine
    /\ UNCHANGED <<input, appVars>>

CallTrendsOverTime == Call("TrendsOverTime")
CallLocationDistribution == Call("LocationDistribution")
CallPairProductAnalysis == Call("PairProductAnalysis")
CallBestSellingProductAnalysis == Call("BestSellingProductAnalysis")
CallProductPerformanceAnalysis == Call("ProductPerformanceAnalysis")

NextRoutines ==
    \/ CallTrendsOverTime
    \/ CallLocationDistribution
    \/ CallPairProductAnalysis
    \/ CallBestSellingProductAnalysis
    \/ CallProductPerformanceAnalysis

SpecRoutines == InitRoutines /\ [][NextRoutines]_vars

(***************************************************************************)
(* The spreadsheet and its ingestion.                                      *)
(***************************************************************************)
\* A header cell: the column's name, with or without blanks around it.
Header(name, padded) == [name |-> name, padded |-> padded]

\* str.strip() of a header cell: the name without the blanks.
str_strip(h) == h.name

SheetDates == {Timestamp(2023, 1, 15), Timestamp(2024, 2, 3), Text(0, 0, 0)}

\* The purchases a record of the sheet may report, as <<customer, category>>.
SheetPurchases == {<<1, 1>>, <<1, 2>>, <<2, 1>>}

SheetRows ==
    {("Date" :> d) @@ ("Customer_ID" :> p[1]) @@ ("Purchase Category" :> p[2])
        @@ ("Location" :> 1) :
        d \in SheetDates, p \in SheetPurchases}

\* What Sales_Data.xlsx may be: no readable file, a sheet without a Date
\* column, or a sheet with the four columns and up to MaxSheetRows records.
Spreadsheets ==
    {[readable |-> FALSE, headers |-> <<>>, rows |-> <<>>]}
    \cup {[readable |-> TRUE,
           headers |-> [i \in DOMAIN ColumnsOf(cs) |-> Header(ColumnsOf(cs)[i], pad)],
           rows |-> <<>>] :
            pad \in BOOLEAN, cs \in {AllColumns, AllColumns \ {"Date"}}}
    \cup {[readable |-> TRUE,
           headers |-> [i \in DOMAIN ColumnOrder |-> Header(ColumnOrder[i], pad)],
           rows |-> rows] :
            pad \in BOOLEAN,
            rows \in UNION {[1..k -> SheetRows] : k \in 1..MaxSheetRows}}

\* The dtype pd.read_excel gives the Date column: datetime64 when every cell
\* is a date, object otherwise (and for a column without cells).
read_excel_dtype(names, rows) ==
    IF "Date" \notin Range(names) THEN "none"
    ELSE IF rows # <<>> /\ \A i \in DOMAIN rows : rows[i]["Date"].kind = "ts"
         THEN "datetime64"
    ELSE "object"

\* ExcelDataIngestion.ingest_data: the sheet with its column names stripped,
\* or an empty DataFrame when reading raises.
ingest_data(file) ==
    IF ~file.readable THEN DataFrame(<<>>, <<>>, "none")
    ELSE LET names == [i \in DOMAIN file.headers |-> str_strip(file.headers[i])]
         IN DataFrame(names, file.rows, read_excel_dtype(names, file.rows))

(***************************************************************************)
(* The layout and the two callbacks.                                       *)
(***************************************************************************)
ChartKinds ==
    {"trends-over-time", "location-distribution", "pair-product-analysis",
     "best-selling-products", "product-performance"}

RoutineOf(chart) ==
    CASE chart = "trends-over-time" -> "TrendsOverTime"
      [] chart = "location-distribution" -> "LocationDistribution"
      [] chart = "pair-product-analysis" -> "PairProductAnalysis"
      [] chart = "best-selling-products" -> "BestSellingProductAnalysis"
      [] chart = "product-performance" -> "ProductPerformanceAnalysis"

\* df['Date'].dt raises KeyError without a Date column and AttributeError
\* when the column is not datetime-like.
DtRaises(df) == ~HasColumn(df, "Date") \/ df.date_dtype # "datetime64"

\* Python truthiness of a dropdown value.
Truthy(v) == v # None /\ v # 0

Answer(kind, options, points) ==
    [raised |-> FALSE, kind |-> kind, options |-> options, points |-> points]
Raises == [raised |-> TRUE, kind |-> "raise", options |-> <<>>, points |-> 0]

\* The options of the year dropdown (line 132).
year_options(sd) ==
    IF DtRaises(sd) THEN Raises
    ELSE Answer("options", SortedSeq({r["Date"].year : r \in Range(sd.rows)}), 0)

update_month_options(sd, selected_year) ==
    IF selected_year = None THEN Answer("options", <<>>, 0)
    ELSE IF DtRaises(sd) THEN Raises
    ELSE Answer("options",
                SortedSeq({r["Date"].month :
                              r \in {x \in Range(sd.rows) : x["Date"].year = selected_year}}),
                0)

RECURSIVE Compress(_, _)
\* The rows a boolean mask (one entry per row) marks, in row order.
Compress(rows, mask) ==
    IF rows = <<>> THEN <<>>
    ELSE (IF Head(mask) THEN <<Head(rows)>> ELSE <<>>)
         \o Compress(Tail(rows), Tail(mask))

\* df[mask]: a new table of the rows the mask keeps.
BooleanIndex(df, mask) == DataFrame(df.columns, Compress(df.rows, mask), df.date_dtype)

\* df['Date'].dt.year == y and df['Date'].dt.month == m, as boolean Series.
YearIs(df, y) == [i \in DOMAIN df.rows |-> df.rows[i]["Date"].year = y]
MonthIs(df, m) == [i \in DOMAIN df.rows |-> df.rows[i]["Date"].month = m]

\* The tables update_visualizations holds: the module's sales_data and its
\* own filtered_data, and whether a statement raised.
Frames(sd, fd, raised) == [sales_data |-> sd, filtered_data |-> fd, raised |-> raised]

\* filtered_data = sales_data.copy()
CopySalesData(sd) == Frames(sd, sd, FALSE)

\* The year filter writing its result to the module's table as well.
FilterYearInPlace(f, y) ==
    IF f.raised \/ DtRaises(f.filtered_data) THEN [f EXCEPT !.raised = TRUE]
    ELSE LET kept == BooleanIndex(f.filtered_data, YearIs(f.filtered_data, y))
         IN Frames(kept, kept, FALSE)

\* filtered_data = filtered_data[filtered_data['Date'].dt.year == selected_year]
FilterYear(f, y) ==
    IF f.raised \/ DtRaises(f.filtered_data) THEN [f EXCEPT !.raised = TRUE]
    ELSE [f EXCEPT !.filtered_data = BooleanIndex(@, YearIs(@, y))]

\* filtered_data = filtered_data[filtered_data['Date'].dt.month == selected_month]
FilterMonth(f, m) ==
    IF f.raised \/ DtRaises(f.filtered_data) THEN [f EXCEPT !.raised = TRUE]
    ELSE [f EXCEPT !.filtered_data = BooleanIndex(@, MonthIs(@, m))]

\* Lines 185-189: the copy and the two optional filters.
Filtered(sd, selected_year, selected_month) ==
    LET f0 == CopySalesData(sd)
        f1 == IF Truthy(selected_year) THEN FilterYear(f0, selected_year) ELSE f0
    IN IF Truthy(selected_month) THEN FilterMonth(f1, selected_month) ELSE f1

\* The table handed to plotly express: all of the routine's result, or its
\* first ten rows for the pair chart.
Plotted(chart, table) ==
    IF chart = "pair-product-analysis" THEN head(table.rows, TopN) ELSE table.rows

\* Lines 184-209.  A plotly Figure is truthy whatever it shows, so fig is
\* falsy only where it was set to None.
update_visualizations(sd, selected_year, selected_month, selected_chart) ==
    LET f == Filtered(sd, selected_year, selected_month)
    IN IF f.raised THEN [frames |-> f, response |-> Raises]
       ELSE IF selected_chart \notin ChartKinds
            THEN [frames |-> f, response |-> Answer("none", <<>>, 0)]
       ELSE LET out == process_data(RoutineOf(selected_chart), f.filtered_data)
                g == [f EXCEPT !.filtered_data = out.data]
            IN IF out.raised THEN [frames |-> g, response |-> Raises]
               ELSE [frames |-> g,
                     response |-> Answer("graph", <<>>,
                                         Len(Plotted(selected_chart, out.table)))]

Years == {None, 2023, 2024}
Months == {None, 1, 2}
ChartValues == ChartKinds \cup {"no-such-chart"}

RoutinesIdle ==
    /\ input = DataFrame(<<>>, <<>>, "none")
    /\ data = input
    /\ called = "none"
    /\ result = NoCall

Init ==
    /\ AppIdle
    /\ RoutinesIdle

\* sales_data = data_ingestion_context.ingest(file_path)
Ingest ==
    /\ pc = "start"
    /\ \E file \in Spreadsheets :
          /\ sales_data' = ingest_data(file)
          /\ ingested' = ingest_data(file)
          /\ load_failed' = ~file.readable
    /\ pc' = "loaded"
    /\ UNCHANGED <<request, response, routineVars>>

\* app.layout = ...: the year options are computed from sales_data; an
\* exception here ends the process before it serves anything.
BuildLayout ==
    /\ pc = "loaded"
    /\ request' = [fn |-> "layout", year |-> None, month |-> None, chart |-> "none"]
    /\ response' = year_options(sales_data)
    /\ pc' = IF year_options(sales_data).raised THEN "crashed" ELSE "serving"
    /\ UNCHANGED <<sales_data, ingested, load_failed, routineVars>>

UpdateMonthOptions ==
    /\ pc = "serving"
    /\ \E y \in Years :
          /\ request' = [fn |-> "update_month_options", year |-> y,
                         month |-> None, chart |-> "none"]
          /\ response' = update_month_options(sales_data, y)
    /\ UNCHANGED <<sales_data, ingested, load_failed, pc, routineVars>>

UpdateVisualizations ==
    /\ pc = "serving"
    /\ \E y \in Years, m \in Months, c \in ChartValues :
          LET out == update_visualizations(sales_data, y, m, c)
          IN /\ request' = [fn |-> "update_visualizations", year |-> y,
                            month |-> m, chart |-> c]
             /\ response' = out.response
             /\ sales_data' = out.frames.sales_data
    /\ UNCHANGED <<ingested, load_failed, pc, routineVars>>

Next ==
    \/ Ingest
    \/ BuildLayout
    \/ UpdateMonthOptions
    \/ UpdateVisualizations

Spec == Init /\ [][Next]_vars

(***************************************************************************)
(* Properties of the routines (checked under SpecRoutines).                *)
(***************************************************************************)
\* The columns each routine is documented to return.
DocumentedColumns(routine) ==
    CASE routine = "TrendsOverTime" -> {"Date", "TotalTransactions"}
      [] routine = "LocationDistribution" -> {"Location", "CustomerCount"}
      [] routine = "PairProductAnalysis" -> {"Product 1", "Product 2", "Frequency"}
      [] routine = "BestSellingProductAnalysis" -> {"Purchase Category", "Frequency"}
      [] routine = "ProductPerformanceAnalysis" -> {"Month", "Product Category", "Sales"}

\* The columns each routine is documented to require.
RequiredColumns(routine) ==
    CASE routine = "TrendsOverTime" -> {"Date", "Customer_ID"}
      [] routine = "LocationDistribution" -> {"Location", "Customer_ID"}
      [] routine = "PairProductAnalysis" -> {"Customer_ID", "Purchase Category"}
      [] routine = "BestSellingProductAnalysis" -> {"Purchase Category", "Customer_ID"}
      [] routine = "ProductPerformanceAnalysis" -> {"Date", "Purchase Category", "Customer_ID"}

HasRequired(routine) == RequiredColumns(routine) \subseteq Range(input.columns)

\* The call returned an empty table with exactly the documented columns.
EmptyDocumented(routine) ==
    /\ ~result.raised
    /\ result.table.rows = <<>>
    /\ Range(result.table.columns) = DocumentedColumns(routine)
    /\ Len(result.table.columns) = Cardinality(DocumentedColumns(routine))

\* No customer of the input has two or more records.
NoCustomerHasTwo ==
    \A c \in CustomerIds :
        CountTrue([n \in DOMAIN input.rows |-> input.rows[n]["Customer_ID"] = c]) < 2

\* C1: on an empty input table (no columns at all, or the required columns
\* and zero rows) every routine returns, without raising, an empty table
\* with its documented columns; PairProductAnalysis also whenever no
\* customer has two or more records.
C1_EmptyInputGivesEmptyTable ==
    ( /\ called \in Routines
      /\ \/ input.rows = <<>>
         \/ (called = "PairProductAnalysis" /\ HasRequired(called) /\ NoCustomerHasTwo) )
    => EmptyDocumented(called)

\* C2: on a table that lacks at least one required column every routine
\* returns, without raising, an empty table whose columns are exactly the
\* documented ones, whatever other columns and rows the table has.
C2_MissingColumnGivesEmptyDocumentedTable ==
    (called \in Routines /\ ~HasRequired(called)) => EmptyDocumented(called)

\* C2's case: a table with rows and some of the required columns, but not
\* all, was handed to a routine.
C2_Witness ==
    /\ called = "ProductPerformanceAnalysis"
    /\ Range(input.columns) = {"Date", "Customer_ID"}
    /\ Len(input.rows) > 0
    /\ EmptyDocumented(called)

\* The input holds the records of one customer only, whose purchase list is
\* [A, A, B].
OneCustomerAAB(A, B) ==
    /\ Range(input.columns) = {"Customer_ID", "Purchase Category"}
    /\ Len(input.rows) = 3
    /\ \E c \in CustomerIds : \A i \in 1..3 : input.rows[i]["Customer_ID"] = c
    /\ input.rows[1]["Purchase Category"] = A
    /\ input.rows[2]["Purchase Category"] = A
    /\ input.rows[3]["Purchase Category"] = B

HasPairRow(X, Y, n) ==
    \E i \in DOMAIN result.table.rows :
        /\ result.table.rows[i]["Product 1"] = X
        /\ result.table.rows[i]["Product 2"] = Y
        /\ result.table.rows[i]["Frequency"] = n

HasPair(X, Y) ==
    \E i \in DOMAIN result.table.rows :
        /\ result.table.rows[i]["Product 1"] = X
        /\ result.table.rows[i]["Product 2"] = Y

\* C3 as stated: for one customer with the list [A, A, B] the result has
\* the pair (A,B) with Frequency 2 and no (A,A) pair.
C3_NoSelfPair ==
    \A A, B \in Categories :
        (called = "PairProductAnalysis" /\ A # B /\ OneCustomerAAB(A, B))
        => (~result.raised /\ HasPairRow(A, B, 2) /\ ~HasPair(A, A))

\* C3 amended: for one customer with the list [A, A, B] the result is the
\* pair (A,B) with Frequency 2 and the pair (A,A) with Frequency 1.
C3_SelfPairCounted ==
    \A A, B \in Categories :
        (called = "PairProductAnalysis" /\ A # B /\ OneCustomerAAB(A, B))
        => /\ ~result.raised
           /\ HasPairRow(A, B, 2)
           /\ HasPairRow(A, A, 1)
           /\ Len(result.table.rows) = 2

C3_Witness ==
    \E A, B \in Categories :
        /\ called = "PairProductAnalysis"
        /\ A # B
        /\ OneCustomerAAB(A, B)
        /\ ~result.raised
        /\ result.table.rows # <<>>

\* The 2-combinations of the customers' lists that yield X and Y, in either
\* order, summed over all customers.
UnorderedCount(X, Y) ==
    LET Of(c) == SelectSeq(input.rows, LAMBDA r : r["Customer_ID"] = c)
        Yields(c, i, j) ==
            \/ Of(c)[i]["Purchase Category"] = X /\ Of(c)[j]["Purchase Category"] = Y
            \/ Of(c)[i]["Purchase Category"] = Y /\ Of(c)[j]["Purchase Category"] = X
    IN Cardinality({t \in CustomerIds \X (1..MaxRows) \X (1..MaxRows) :
                       /\ t[2] < t[3]
                       /\ t[3] <= Len(Of(t[1]))
                       /\ Yields(t[1], t[2], t[3])})

Descending(rows, key) ==
    \A i, j \in DOMAIN rows : i < j => rows[i][key] >= rows[j][key]

\* C4: PairProductAnalysis counts unordered pairs: one row per unordered
\* pair of categories co-occurring in some customer's list, its Frequency
\* the number of 2-combinations yielding the two in either order, never both
\* a row (X,Y) and a row (Y,X), rows descending by Frequency.
C4_PairsUnordered ==
    (called = "PairProductAnalysis" /\ HasRequired(called) /\ ~result.raised) =>
        LET rows == result.table.rows
        IN /\ \A i \in DOMAIN rows :
                  rows[i]["Frequency"] =
                      UnorderedCount(rows[i]["Product 1"], rows[i]["Product 2"])
           /\ \A i, j \in DOMAIN rows :
                  i # j => ~( /\ rows[i]["Product 1"] = rows[j]["Product 2"]
                              /\ rows[i]["Product 2"] = rows[j]["Product 1"] )
           /\ \A X, Y \in Categories :
                  UnorderedCount(X, Y) > 0 => (HasPair(X, Y) \/ HasPair(Y, X))
           /\ Descending(rows, "Frequency")

\* The input records whose Date, once parsed, falls in the month of ts.
RecordsInMonth(ts) ==
    CountTrue([n \in DOMAIN input.rows |->
                  /\ to_datetime(input.rows[n]["Date"]).kind = "ts"
                  /\ to_datetime(input.rows[n]["Date"]).year = ts.year
                  /\ to_datetime(input.rows[n]["Date"]).month = ts.month])

\* C5: TrendsOverTime returns one row per month present in the data, in
\* chronological order, whose TotalTransactions is >= 0 and is the number
\* of input records whose Date falls in that month, records with a missing
\* Customer_ID included.
C5_TrendsCountsRecordsPerMonth ==
    (called = "TrendsOverTime" /\ HasRequired(called)) =>
        LET rows == result.table.rows
        IN /\ ~result.raised
           /\ \A i \in DOMAIN rows :
                  /\ rows[i].TotalTransactions >= 0
                  /\ rows[i].TotalTransactions = RecordsInMonth(rows[i].Date)
           /\ \A k \in DOMAIN input.rows :
                  to_datetime(input.rows[k]["Date"]).kind = "ts" =>
                      \E i \in DOMAIN rows :
                          rows[i].Date =
                              to_timestamp(to_period_M(to_datetime(input.rows[k]["Date"])))
           /\ \A i, j \in DOMAIN rows :
                  i < j => to_period_M(rows[i].Date) < to_period_M(rows[j].Date)

\* The input records of category k.
RecordsOfCategory(k) ==
    CountTrue([n \in DOMAIN input.rows |-> input.rows[n]["Purchase Category"] = k])

\* C6: BestSellingProductAnalysis returns at most 10 rows, the categories
\* with the highest record counts in descending order of Frequency, and for
\* a non-empty input the largest Frequency is greater than 0.
C6_BestSellingTopTen ==
    (called = "BestSellingProductAnalysis" /\ HasRequired(called)) =>
        LET rows == result.table.rows
            listed == {rows[i]["Purchase Category"] : i \in DOMAIN rows}
        IN /\ ~result.raised
           /\ Len(rows) <= TopN
           /\ Descending(rows, "Frequency")
           /\ \A i \in DOMAIN rows :
                  rows[i]["Frequency"] = RecordsOfCategory(rows[i]["Purchase Category"])
           /\ \A k \in {r["Purchase Category"] : r \in Range(input.rows)} \ listed :
                  \A i \in DOMAIN rows : RecordsOfCategory(k) <= rows[i]["Frequency"]
           /\ input.rows # <<>> => \E i \in DOMAIN rows : rows[i]["Frequency"] > 0

\* C9: the table passed to process_data is unchanged after the call: same
\* rows, same columns, same cells in the same representation.
C9_ArgumentUnchanged ==
    called \in Routines => (data.columns = input.columns /\ data.rows = input.rows)

(***************************************************************************)
(* Properties of the running dashboard (checked under Spec).               *)
(***************************************************************************)
\* The routine the chart kind dispatches to returns nothing to plot for the
\* records the year and month select.
AggregateIsEmpty(y, m, c) ==
    LET out == process_data(RoutineOf(c), Filtered(ingested, y, m).filtered_data)
    IN out.raised \/ out.table.rows = <<>>

\* C7: update_visualizations never raises, and returns no chart (None) when
\* the chart kind is not one of the five or the dispatched routine returns
\* an empty result.
C7_NoChartForUnknownOrEmpty ==
    request.fn = "update_visualizations" =>
        /\ ~response.raised
        /\ ( \/ request.chart \notin ChartKinds
             \/ AggregateIsEmpty(request.year, request.month, request.chart) )
           => response.kind = "none"

\* C8: a failed read of the spreadsheet is never fatal: ingest returns an
\* empty table, and the layout and the callbacks that use it complete
\* without raising.
C8_IngestFailureNeverFatal ==
    load_failed =>
        /\ (ingested.columns = <<>> /\ ingested.rows = <<>>)
        /\ pc # "crashed"
        /\ ~response.raised

\* C10: sales_data stays the table ingestion produced whatever callbacks have
\* run, so a render is decided by its own (year, month, chart-kind) inputs.
C10_SalesDataNeverMutated ==
    /\ pc # "start" => sales_data = ingested
    /\ request.fn = "update_visualizations" =>
          response = update_visualizations(ingested, request.year, request.month,
                                           request.chart).response

\* C10's case: a render that filtered records away and ran a routine that
\* assigns the Date column has been served.
C10_Witness ==
    /\ pc = "serving"
    /\ request.fn = "update_visualizations"
    /\ Truthy(request.year)
    /\ request.chart = "trends-over-time"
    /\ response.kind = "graph"
    /\ Len(Filtered(ingested, request.year, request.month).filtered_data.rows)
          < Len(ingested.rows)
    /\ Len(Filtered(ingested, request.year, request.month).filtered_data.rows) > 0

====
